---- MODULE Spec2Model ----
(***************************************************************************)
(* git-meta: the repository registry (Meta), the discovery walk, the scan  *)
(* and the per-repository status computation (Repo), modelled from         *)
(* src/gitmeta.py; the pygit2 iteration src/src/git/meta/meta.py is        *)
(* modelled where it differs (remote_diff's walk, status()).               *)
(***************************************************************************)
EXTENDS Integers, Sequences, FiniteSets, TLC

(* ------------------------------ bounds --------------------------------- *)

\* Number of directories of the scanned tree (heap-shaped: d's parent is d \div 2).
NDirs == 5

\* Number of commits of a repository's history.
NCommits == 3

\* Number of files of a working tree.
NFiles == 3

(* ------------------------------ strings -------------------------------- *)

\* Strings are sequences of one-character strings, so that join, splitlines,
\* comparison and formatting are computed as Python computes them.

\* Code point of a character (Python compares str by code point).
Ord(c) ==
  CASE c = "\n" -> 10
    [] c = "*" -> 42
    [] c = "+" -> 43
    [] c = "-" -> 45
    [] c = "/" -> 47
    [] c = "0" -> 48
    [] c = "1" -> 49
    [] c = "2" -> 50
    [] c = "3" -> 51
    [] c = "4" -> 52
    [] c = "5" -> 53
    [] c = "6" -> 54
    [] c = "7" -> 55
    [] c = "8" -> 56
    [] c = "9" -> 57
    [] c = "?" -> 63
    [] c = "a" -> 97
    [] c = "b" -> 98
    [] c = "h" -> 104
    [] OTHER -> 120

\* s < t for Python str: lexicographic by code point, a proper prefix is smaller.
RECURSIVE StrLess(_, _)
StrLess(s, t) ==
  IF t = <<>> THEN FALSE
  ELSE IF s = <<>> THEN TRUE
  ELSE IF Head(s) = Head(t) THEN StrLess(Tail(s), Tail(t))
  ELSE Ord(Head(s)) < Ord(Head(t))

\* "\n".join(list)
RECURSIVE Join(_)
Join(list) ==
  IF list = <<>> THEN <<>>
  ELSE IF Len(list) = 1 THEN list[1]
  ELSE list[1] \o <<"\n">> \o Join(Tail(list))

\* str.splitlines(): the lines between line breaks, no empty last line.
RECURSIVE SplitFrom(_, _)
SplitFrom(s, cur) ==
  IF s = <<>> THEN (IF cur = <<>> THEN <<>> ELSE <<cur>>)
  ELSE IF Head(s) = "\n" THEN <<cur>> \o SplitFrom(Tail(s), <<>>)
  ELSE SplitFrom(Tail(s), Append(cur, Head(s)))

SplitLines(s) == SplitFrom(s, <<>>)

\* glob.has_magic(s): s holds one of * ? [
has_magic(s) == \E i \in 1..Len(s) : s[i] \in {"*", "?", "["}

\* fnmatch.fnmatch(name, pat) on POSIX: * matches any run of characters
\* (a "/" included), ? any one character, the whole name must match.
RECURSIVE fnmatch(_, _)
fnmatch(name, pat) ==
  IF pat = <<>> THEN name = <<>>
  ELSE IF Head(pat) = "*"
    THEN fnmatch(name, Tail(pat)) \/ (name # <<>> /\ fnmatch(Tail(name), pat))
  ELSE IF Head(pat) = "?"
    THEN name # <<>> /\ fnmatch(Tail(name), Tail(pat))
  ELSE name # <<>> /\ Head(name) = Head(pat) /\ fnmatch(Tail(name), Tail(pat))

\* Elements of a sequence.
Range(s) == {s[i] : i \in 1..Len(s)}

\* sorted(set(list)): ascending, duplicates dropped.
RECURSIVE SortSet(_)
SortSet(S) ==
  IF S = {} THEN <<>>
  ELSE LET m == CHOOSE x \in S : \A y \in S \ {x} : StrLess(x, y)
       IN <<m>> \o SortSet(S \ {m})

SortedSet(list) == SortSet(Range(list))

\* list.remove(x): drops the first occurrence of x.
RECURSIVE ListRemove(_, _)
ListRemove(list, x) ==
  IF list = <<>> THEN <<>>
  ELSE IF Head(list) = x THEN Tail(list)
  ELSE <<Head(list)>> \o ListRemove(Tail(list), x)

(* --------------------------- the scanned tree -------------------------- *)

Dirs == 1..NDirs

\* The scan root (config["scanroot"]).
ScanRoot == 1

DirName(d) == IF d % 2 = 0 THEN "a" ELSE "b"

\* Absolute path of a directory, as os.walk reports it in `root`.
PathOf[d \in Dirs] ==
  IF d = 1 THEN <<"/", "h">> ELSE PathOf[d \div 2] \o <<"/", DirName(d)>>

Children(d) == {c \in Dirs : c > 1 /\ c \div 2 = d}

\* d is a strict descendant of a.
RECURSIVE IsBelow(_, _)
IsBelow(d, a) == d > 1 /\ (d \div 2 = a \/ IsBelow(d \div 2, a))

\* What a directory holds: nothing of interest; a .git subdirectory of a valid
\* repository; a .git subdirectory that is no valid repository; the files of a
\* bare repository (a config file among them); a config file and no repository.
Kinds == {"plain", "repo", "broken", "bare", "cfgonly"}

HasDotGit(k) == k \in {"repo", "broken"}
HasConfig(k) == k \in {"bare", "cfgonly"}
Opens(k) == k \in {"repo", "bare"}

\* The orders os.scandir may list a directory's subdirectories in.
RECURSIVE Perms(_)
Perms(S) ==
  IF S = {} THEN {<<>>}
  ELSE UNION {{<<x>> \o p : p \in Perms(S \ {x})} : x \in S}

Listings ==
  {l \in [Dirs -> UNION {Perms(Children(d)) : d \in Dirs}] :
      \A d \in Dirs : l[d] \in Perms(Children(d))}

\* Contents of the ignore file the model draws from.
IgnoreSamples ==
  { <<>>,
    <<PathOf[2]>>,
    <<PathOf[3]>>,
    << <<"/", "h", "/", "?">> >>,
    << <<"/", "h", "/", "a", "*">> >>,
    << PathOf[3], <<"/", "h", "/", "a", "/", "*">> >> }

(* ------------------------------- state --------------------------------- *)

VARIABLES
  kind,        \* file system: what each directory holds
  listing,     \* file system: the order each directory lists its subdirectories in
  ignorelist,  \* file system: the lines of the ignore file (<<>> when absent)
  fileExists,  \* whether config["repolist"] exists
  file,        \* its content
  pc,          \* where the process is: off, main, ready, discover0, discover, scan, scanned
  repolist,    \* Meta.repolist
  todo,        \* discover: directories os.walk has still to report, next first
  found,       \* discover: its local repolist
  visited,     \* discover: directories os.walk reported
  checked,     \* discover: directories Repo(root) was attempted on
  idx,         \* iter: position in self.repolist
  clean,       \* iter: the clean argument
  filter,      \* iter: the filter_status argument
  log,         \* iter: one entry per path attempted: the path, whether it opened, the facts read
  yielded,     \* iter: working directories of the repositories yielded, in order
  impl,        \* one repository: which Repo class runs, "gitpython" (gitmeta.py) or "pygit2" (meta.py)
  parents,     \* one repository: each commit's parents
  head,        \* one repository: each local branch's tip
  track,       \* one repository: each local branch's tracking branch
  wt,          \* one repository: the state of each file of the working tree
  rpc,         \* one repository: idle, diff (remote_diff's loop), returned, raised, dirty
  bidx,        \* remote_diff: position in self.branches
  bases,       \* remote_diff: the merge base found for each branch (0: none)
  counts,      \* remote_diff: count_desc and count_asc of each branch
  diffs,       \* remote_diff: the dict it builds
  raised,      \* remote_diff, statusline: the exception that ended it ("none": none)
  dirtyRes,    \* is_dirty: the value returned
  bare,        \* one repository: whether it is bare
  working_dir, \* one repository: its working_dir (meta.py: workdir)
  stashed,     \* one repository: whether a stash exists
  line_width,  \* statusline: the line_width argument
  line,        \* statusline: the line it builds, tags included
  launches     \* terminal: one entry per Popen call: the directory, whether the process was spawned

metaVars == <<kind, listing, ignorelist, fileExists, file, pc, repolist, todo, found,
              visited, checked, idx, clean, filter, log, yielded, launches>>

repoVars == <<impl, parents, head, track, wt, rpc, bidx, bases, counts, diffs,
              raised, dirtyRes>>

lineVars == <<bare, working_dir, stashed, line_width, line>>

vars == <<metaVars, repoVars, lineVars>>

fsVars == <<kind, listing, ignorelist>>
walkVars == <<todo, found, visited, checked>>
scanVars == <<idx, clean, filter, log, yielded>>

(* ------------------------------ discover ------------------------------- *)

\* Repo.working_dir of the repository opened at directory d.
WorkingDir(d) == PathOf[d]

\* WalkBody without the `del dirs[:]` that follows a successful open.
WalkBody_DescendIntoRepo(root, dirs, k, ign) ==
  LET cleared == [git |-> FALSE, subs |-> <<>>]
      path == PathOf[root]
  IN IF path \in Range(ign)
       THEN [dirs |-> cleared, add |-> <<>>, chk |-> FALSE]
     ELSE
       LET dirs1 == IF \E i \in 1..Len(ign) : has_magic(ign[i]) /\ fnmatch(path, ign[i])
                      THEN cleared ELSE dirs
       IN IF dirs1.git \/ HasConfig(k)
            THEN IF Opens(k)
                   THEN [dirs |-> dirs1, add |-> <<PathOf[root]>>, chk |-> TRUE]
                   ELSE [dirs |-> dirs1, add |-> <<>>, chk |-> TRUE]
            ELSE [dirs |-> dirs1, add |-> <<>>, chk |-> FALSE]

\* WalkBody with a `del dirs[:]` before the `continue` of a failed open.
WalkBody_StopAtBroken(root, dirs, k, ign) ==
  LET cleared == [git |-> FALSE, subs |-> <<>>]
      path == PathOf[root]
  IN IF path \in Range(ign)
       THEN [dirs |-> cleared, add |-> <<>>, chk |-> FALSE]
     ELSE
       LET dirs1 == IF \E i \in 1..Len(ign) : has_magic(ign[i]) /\ fnmatch(path, ign[i])
                      THEN cleared ELSE dirs
       IN IF dirs1.git \/ HasConfig(k)
            THEN IF Opens(k)
                   THEN [dirs |-> cleared, add |-> <<PathOf[root]>>, chk |-> TRUE]
                   ELSE [dirs |-> cleared, add |-> <<>>, chk |-> TRUE]
            ELSE [dirs |-> dirs1, add |-> <<>>, chk |-> FALSE]

\* The body of discover's loop for one (root, dirs, files) of os.walk.
\* dirs is [git: whether ".git" is listed, subs: the other subdirectories].
\* The result: the dirs left for os.walk to descend into, the paths appended
\* to repolist, and whether Repo(root) was attempted.
\* A .git subdirectory left in dirs is walked too; it holds no .git of its
\* own and Repo() on it resolves to the git directory Repo(root) refused, so
\* it adds nothing and is not a node of the model.
WalkBody(root, dirs, k, ign) ==
  LET cleared == [git |-> FALSE, subs |-> <<>>]
      path == PathOf[root]
  IN IF path \in Range(ign)
       THEN [dirs |-> cleared, add |-> <<>>, chk |-> FALSE]
     ELSE
       LET dirs1 == IF \E i \in 1..Len(ign) : has_magic(ign[i]) /\ fnmatch(path, ign[i])
                      THEN cleared ELSE dirs
       IN IF dirs1.git \/ HasConfig(k)
            THEN IF Opens(k)
                   THEN [dirs |-> cleared, add |-> <<WorkingDir(root)>>, chk |-> TRUE]
                   ELSE [dirs |-> dirs1, add |-> <<>>, chk |-> TRUE]
            ELSE [dirs |-> dirs1, add |-> <<>>, chk |-> FALSE]

\* Meta._write_repolist: the file holds "\n".join(repolist).
WriteRepolist(list) == Join(list)

\* Meta.read_list: the lines of the file.
ReadList(content) == SplitLines(content)

\* What discover leaves in self.repolist.
DiscoverResult(list) == SortedSet(list)

\* discover begins: the walk starts at the scan root.
BeginWalk ==
  /\ todo' = <<ScanRoot>>
  /\ found' = <<>>
  /\ visited' = {}
  /\ checked' = {}

\* Startup with an absent file taken as an empty registry, without discovery.
Startup_EmptyOnMissingFile ==
  /\ pc = "off"
  /\ repolist' = IF fileExists THEN ReadList(file) ELSE <<>>
  /\ pc' = "main"
  /\ UNCHANGED <<fsVars, fileExists, file, walkVars, scanVars>>
  /\ UNCHANGED <<launches, repoVars, lineVars>>

\* Meta.__init__: read the registry file, or discover when it is absent.
Startup ==
  /\ pc = "off"
  /\ IF fileExists
       THEN /\ repolist' = ReadList(file)
            /\ pc' = "main"
            /\ UNCHANGED walkVars
       ELSE /\ repolist' = <<>>
            /\ pc' = "discover0"
            /\ BeginWalk
  /\ UNCHANGED <<fsVars, fileExists, file, scanVars>>
  /\ UNCHANGED <<launches, repoVars, lineVars>>

\* main: --discover.
DiscoverStart ==
  /\ pc = "main"
  /\ pc' = "discover"
  /\ BeginWalk
  /\ UNCHANGED <<fsVars, fileExists, file, repolist, scanVars>>
  /\ UNCHANGED <<launches, repoVars, lineVars>>

\* One iteration of discover's loop over os.walk.
WalkStep ==
  /\ pc \in {"discover0", "discover"}
  /\ todo # <<>>
  /\ LET root == Head(todo)
         r == WalkBody(root, [git |-> HasDotGit(kind[root]), subs |-> listing[root]],
                       kind[root], ignorelist)
     IN /\ todo' = r.dirs.subs \o Tail(todo)
        /\ found' = found \o r.add
        /\ visited' = visited \cup {root}
        /\ checked' = IF r.chk THEN checked \cup {root} ELSE checked
  /\ UNCHANGED <<fsVars, fileExists, file, pc, repolist, scanVars>>
  /\ UNCHANGED <<launches, repoVars, lineVars>>

\* The end of discover: write the file, replace self.repolist.
DiscoverFinish ==
  /\ pc \in {"discover0", "discover"}
  /\ todo = <<>>
  /\ fileExists' = TRUE
  /\ file' = WriteRepolist(found)
  /\ repolist' = DiscoverResult(found)
  /\ pc' = IF pc = "discover0" THEN "main" ELSE "ready"
  /\ UNCHANGED <<fsVars, walkVars, scanVars>>
  /\ UNCHANGED <<launches, repoVars, lineVars>>

(* -------------------------------- scan --------------------------------- *)

\* The facts iter's filter reads from an opened repository: is_dirty(),
\* whether remote_diff() is non-empty, stashed(), has_remote().
Facts ==
  {f \in [dirty : BOOLEAN, rdiff : BOOLEAN, stash : BOOLEAN, remote : BOOLEAN] :
      f.rdiff => f.remote}

NoFacts == [dirty |-> FALSE, rdiff |-> FALSE, stash |-> FALSE, remote |-> FALSE]

\* The filter_status values main passes.
Filters == {"all", "OK", "NOK", "KO", "remote", "?", "no-remote"}

\* The filter condition with stashed() left out of "NOK".
Passes_NokWithoutStash(flt, f) ==
  \/ flt \in {"None", "all"}
  \/ (flt = "OK" /\ ~f.dirty)
  \/ (flt = "KO" /\ f.dirty)
  \/ (flt = "remote" /\ f.rdiff)
  \/ (flt = "no-remote" /\ ~f.remote)
  \/ (flt = "NOK" /\ (f.dirty \/ f.rdiff))

\* The condition under which iter yields an opened repository.
Passes(flt, f) ==
  \/ flt \in {"None", "all"}
  \/ (flt = "OK" /\ ~f.dirty)
  \/ (flt = "KO" /\ f.dirty)
  \/ (flt = "remote" /\ f.rdiff)
  \/ (flt = "no-remote" /\ ~f.remote)
  \/ (flt = "NOK" /\ (f.dirty \/ f.rdiff \/ f.stash))

\* The directory a path names, 0 when it names none.
DirOf(path) ==
  IF \E d \in Dirs : PathOf[d] = path THEN CHOOSE d \in Dirs : PathOf[d] = path ELSE 0

\* Whether Repo(path) opens.
RepoOpens(path) == DirOf(path) # 0 /\ Opens(kind[DirOf(path)])

\* What iter writes when path fails to open and clean is set.
PruneWrite(list, path) == WriteRepolist(ListRemove(list, path))

\* main: meta.scan(filter_status, clean).
ScanStart ==
  /\ pc \in {"main", "ready"}
  /\ \E c \in BOOLEAN, flt \in Filters :
       /\ clean' = c
       /\ filter' = flt
  /\ idx' = 1
  /\ log' = <<>>
  /\ yielded' = <<>>
  /\ pc' = "scan"
  /\ UNCHANGED <<fsVars, fileExists, file, repolist, walkVars>>
  /\ UNCHANGED <<launches, repoVars, lineVars>>

\* ScanInvalid with the GitError of a path that fails to open left uncaught.
ScanInvalid_Abort ==
  /\ pc = "scan"
  /\ idx <= Len(repolist)
  /\ ~RepoOpens(repolist[idx])
  /\ pc' = "crashed"
  /\ UNCHANGED <<fsVars, fileExists, file, repolist, walkVars, scanVars>>
  /\ UNCHANGED <<launches, repoVars, lineVars>>

\* One iteration of iter's loop: the path fails to open.
ScanInvalid ==
  /\ pc = "scan"
  /\ idx <= Len(repolist)
  /\ ~RepoOpens(repolist[idx])
  /\ log' = Append(log, [p |-> repolist[idx], ok |-> FALSE, f |-> NoFacts])
  /\ IF clean
       THEN /\ file' = PruneWrite(repolist, repolist[idx])
            /\ fileExists' = TRUE
       ELSE UNCHANGED <<file, fileExists>>
  /\ idx' = idx + 1
  /\ UNCHANGED <<fsVars, pc, repolist, walkVars, clean, filter, yielded>>
  /\ UNCHANGED <<launches, repoVars, lineVars>>

\* One iteration of iter's loop: the path opens, and is yielded when it
\* passes the filter.
ScanValid ==
  /\ pc = "scan"
  /\ idx <= Len(repolist)
  /\ RepoOpens(repolist[idx])
  /\ \E f \in Facts :
       /\ log' = Append(log, [p |-> repolist[idx], ok |-> TRUE, f |-> f])
       /\ yielded' = IF Passes(filter, f)
                       THEN Append(yielded, WorkingDir(DirOf(repolist[idx])))
                       ELSE yielded
  /\ idx' = idx + 1
  /\ UNCHANGED <<fsVars, fileExists, file, pc, repolist, walkVars, clean, filter>>
  /\ UNCHANGED <<launches, repoVars, lineVars>>

\* iter is exhausted.
ScanEnd ==
  /\ pc = "scan"
  /\ idx > Len(repolist)
  /\ pc' = "scanned"
  /\ UNCHANGED <<fsVars, fileExists, file, repolist, walkVars, scanVars>>
  /\ UNCHANGED <<launches, repoVars, lineVars>>

\* One iteration of scan's loop on a path that opens, for a repository whose
\* remote_diff raises: in iter's filter when the filter reads remote_diff,
\* else in statusline once the repository is yielded. Nothing catches it
\* (the except of iter guards Repo(path) alone): the run ends.
ScanRaise ==
  /\ pc = "scan"
  /\ idx <= Len(repolist)
  /\ RepoOpens(repolist[idx])
  /\ \E dirty \in BOOLEAN :
       LET inFilter == filter = "remote" \/ (filter = "NOK" /\ ~dirty)
           inLine == \/ filter \in {"None", "all"}
                     \/ (filter = "OK" /\ ~dirty)
                     \/ (filter = "KO" /\ dirty)
                     \/ (filter = "NOK" /\ dirty)
       IN /\ inFilter \/ inLine
          /\ yielded' = IF inLine THEN Append(yielded, WorkingDir(DirOf(repolist[idx])))
                        ELSE yielded
  /\ pc' = "crashed"
  /\ UNCHANGED <<fsVars, fileExists, file, repolist, walkVars, idx, clean, filter, log>>
  /\ UNCHANGED <<launches, repoVars, lineVars>>

(* ------------------------------ terminal ------------------------------- *)

\* main: --terminal, after the scan: meta.terminal(filter_status) iterates
\* the registry again, without clean.
TerminalStart ==
  /\ pc = "scanned"
  /\ pc' = "terminal"
  /\ idx' = 1
  /\ clean' = FALSE
  /\ log' = <<>>
  /\ yielded' = <<>>
  /\ launches' = <<>>
  /\ UNCHANGED <<fsVars, fileExists, file, repolist, walkVars, filter>>
  /\ UNCHANGED <<repoVars, lineVars>>

\* One iteration of terminal's loop over iter: the path fails to open.
TerminalInvalid ==
  /\ pc = "terminal"
  /\ idx <= Len(repolist)
  /\ ~RepoOpens(repolist[idx])
  /\ log' = Append(log, [p |-> repolist[idx], ok |-> FALSE, f |-> NoFacts])
  /\ idx' = idx + 1
  /\ UNCHANGED <<fsVars, fileExists, file, pc, repolist, walkVars, clean, filter, yielded>>
  /\ UNCHANGED <<launches, repoVars, lineVars>>

\* One iteration: the path opens; when the repository passes the filter it
\* is yielded, and subprocess.Popen starts a terminal in its directory.
TerminalValid ==
  /\ pc = "terminal"
  /\ idx <= Len(repolist)
  /\ RepoOpens(repolist[idx])
  /\ \E f \in Facts :
       /\ log' = Append(log, [p |-> repolist[idx], ok |-> TRUE, f |-> f])
       /\ IF Passes(filter, f)
            THEN /\ yielded' = Append(yielded, WorkingDir(DirOf(repolist[idx])))
                 /\ launches' = Append(launches, [p |-> WorkingDir(DirOf(repolist[idx])),
                                                  spawned |-> TRUE])
            ELSE UNCHANGED <<yielded, launches>>
  /\ idx' = idx + 1
  /\ UNCHANGED <<fsVars, fileExists, file, pc, repolist, walkVars, clean, filter>>
  /\ UNCHANGED <<repoVars, lineVars>>

\* One iteration: the repository is yielded and subprocess.Popen fails to
\* start the process (no gnome-terminal on the machine, no process left):
\* Popen raises OSError, which nothing catches, and the run ends.
TerminalSpawnFails ==
  /\ pc = "terminal"
  /\ idx <= Len(repolist)
  /\ RepoOpens(repolist[idx])
  /\ \E f \in Facts :
       /\ Passes(filter, f)
       /\ log' = Append(log, [p |-> repolist[idx], ok |-> TRUE, f |-> f])
  /\ yielded' = Append(yielded, WorkingDir(DirOf(repolist[idx])))
  /\ launches' = Append(launches, [p |-> WorkingDir(DirOf(repolist[idx])),
                                   spawned |-> FALSE])
  /\ pc' = "crashed"
  /\ UNCHANGED <<fsVars, fileExists, file, repolist, walkVars, idx, clean, filter>>
  /\ UNCHANGED <<repoVars, lineVars>>

\* One iteration: the filter reads remote_diff of a repository whose
\* remote_diff raises.
TerminalRaise ==
  /\ pc = "terminal"
  /\ idx <= Len(repolist)
  /\ RepoOpens(repolist[idx])
  /\ filter \in {"remote", "NOK"}
  /\ pc' = "crashed"
  /\ UNCHANGED <<fsVars, fileExists, file, repolist, walkVars, scanVars>>
  /\ UNCHANGED <<launches, repoVars, lineVars>>

\* terminal's loop is exhausted, main returns.
TerminalEnd ==
  /\ pc = "terminal"
  /\ idx > Len(repolist)
  /\ pc' = "done"
  /\ UNCHANGED <<fsVars, fileExists, file, repolist, walkVars, scanVars>>
  /\ UNCHANGED <<launches, repoVars, lineVars>>

\* The process ends; its memory is lost.
Exit ==
  /\ pc = "scanned"
  /\ pc' = "off"
  /\ repolist' = <<>>
  /\ todo' = <<>>
  /\ found' = <<>>
  /\ visited' = {}
  /\ checked' = {}
  /\ idx' = 1
  /\ clean' = FALSE
  /\ filter' = "all"
  /\ log' = <<>>
  /\ yielded' = <<>>
  /\ UNCHANGED <<fsVars, fileExists, file>>
  /\ UNCHANGED <<launches, repoVars, lineVars>>

\* Between two runs a repository is deleted from the disk.
RemoveRepo ==
  /\ pc = "off"
  /\ \E d \in Dirs :
       /\ Opens(kind[d])
       /\ kind' = [kind EXCEPT ![d] = "plain"]
  /\ UNCHANGED <<listing, ignorelist, fileExists, file, pc, repolist, walkVars, scanVars>>
  /\ UNCHANGED <<launches, repoVars, lineVars>>

(* --------------------------- save and load ----------------------------- *)

\* _write_repolist(repolist) on the list a discovery built.
SaveRegistry ==
  /\ pc = "save"
  /\ file' = WriteRepolist(found)
  /\ fileExists' = TRUE
  /\ pc' = "saved"
  /\ UNCHANGED <<fsVars, repolist, walkVars, scanVars>>
  /\ UNCHANGED <<launches, repoVars, lineVars>>

\* read_list() on the file written.
LoadRegistry ==
  /\ pc = "saved"
  /\ repolist' = ReadList(file)
  /\ pc' = "loaded"
  /\ UNCHANGED <<fsVars, fileExists, file, walkVars, scanVars>>
  /\ UNCHANGED <<launches, repoVars, lineVars>>

\* _write_repolist(self.repolist) on the list read.
SaveAgain ==
  /\ pc = "loaded"
  /\ file' = WriteRepolist(repolist)
  /\ fileExists' = TRUE
  /\ pc' = "resaved"
  /\ UNCHANGED <<fsVars, repolist, walkVars, scanVars>>
  /\ UNCHANGED <<launches, repoVars, lineVars>>

(* ----------------------- one repository: history ----------------------- *)

Commits == 1..NCommits

\* The commit graphs: a commit's parents are older commits, at most two.
Graphs ==
  {g \in [Commits -> SUBSET Commits] :
     \A c \in Commits : g[c] \subseteq 1..(c - 1) /\ Cardinality(g[c]) <= 2}

\* The commits reachable from c, c included.
RECURSIVE Reach(_, _)
Reach(g, c) == {c} \cup UNION {Reach(g, q) : q \in g[c]}

\* The best common ancestors of a and b: what git merge-base (GitPython's
\* Repo.merge_base) and libgit2's git_merge_base (pygit2's) choose one of.
MergeBases(g, a, b) ==
  LET common == Reach(g, a) \cap Reach(g, b)
  IN {x \in common : \A y \in common \ {x} : x \notin Reach(g, y)}

\* iter_commits("base..tip"): the commits reachable from tip and not from base.
RevListCount(g, base, tip) == Cardinality(Reach(g, tip) \ Reach(g, base))

\* The orders walk(tip, GIT_SORT_TOPOLOGICAL) may report the commits
\* reachable from tip in: no commit before all its children are reported.
TopoOrders(g, tip) ==
  {o \in Perms(Reach(g, tip)) :
     \A i, j \in 1..Len(o) : o[j] \in g[o[i]] => i < j}

\* meta.py's loop over the walk: the number of commits reported before base.
WalkCount(order, base) ==
  Cardinality({i \in 1..Len(order) : \A j \in 1..i : order[j] # base})

\* The local branches, in the order self.branches lists them.
BranchOrder == <<"dev", "master">>
Branches == Range(BranchOrder)

\* What a branch records as its upstream: nothing; a remote reference that
\* exists, with its tip; a remote reference that exists no longer.
TrackStates ==
  {[st |-> "none", tip |-> 0], [st |-> "stale", tip |-> 0]}
    \cup {[st |-> "live", tip |-> c] : c \in Commits}

\* Whether the branch's tracking branch is not None. GitPython's
\* tracking_branch() builds the reference from the branch's configuration
\* alone; pygit2's upstream looks the reference up and is None when it is
\* not found.
HasTracking(im, t) ==
  IF im = "gitpython" THEN t.st # "none" ELSE t.st = "live"

\* One decimal digit.
Digit(n) ==
  CASE n = 0 -> "0" [] n = 1 -> "1" [] n = 2 -> "2" [] n = 3 -> "3" [] n = 4 -> "4"
    [] n = 5 -> "5" [] n = 6 -> "6" [] n = 7 -> "7" [] n = 8 -> "8" [] OTHER -> "9"

RECURSIVE Digits(_)
Digits(n) == IF n < 10 THEN <<Digit(n)>> ELSE Digits(n \div 10) \o <<Digit(n % 10)>>

\* str(n) and "{}".format(n) of an int.
PyStr(n) == IF n < 0 THEN <<"-">> \o Digits(-n) ELSE Digits(n)

NoEntry == [has |-> FALSE, val |-> <<>>]

\* remote_diff's encoding with a "+" before the local count.
Encode_Signed(count_desc, count_asc) ==
  IF count_asc # 0 \/ count_desc # 0
    THEN [has |-> TRUE,
          val |-> IF count_asc # 0 /\ count_desc # 0
                    THEN <<"+">> \o PyStr(count_desc) \o <<"-">> \o PyStr(count_asc)
                  ELSE IF count_desc # 0 THEN <<"+">> \o PyStr(count_desc)
                  ELSE PyStr(-count_asc)]
    ELSE NoEntry

\* remote_diff: the entry of diffs for a branch with these counts.
Encode(count_desc, count_asc) ==
  IF count_asc # 0 \/ count_desc # 0
    THEN [has |-> TRUE,
          val |-> IF count_asc # 0 /\ count_desc # 0
                    THEN PyStr(count_desc) \o <<"-">> \o PyStr(count_asc)
                  ELSE IF count_desc # 0 THEN PyStr(count_desc)
                  ELSE PyStr(-count_asc)]
    ELSE NoEntry

\* remote_diff is called.
RemoteDiffStart ==
  /\ rpc = "idle"
  /\ rpc' = "diff"
  /\ bidx' = 1
  /\ bases' = [b \in Branches |-> 0]
  /\ counts' = [b \in Branches |-> [desc |-> 0, asc |-> 0]]
  /\ diffs' = [b \in Branches |-> NoEntry]
  /\ raised' = "none"
  /\ UNCHANGED <<impl, parents, head, track, wt, dirtyRes>>
  /\ UNCHANGED <<metaVars, lineVars>>

\* One iteration of remote_diff's loop: the branch has no tracking branch.
DiffSkip ==
  /\ rpc = "diff"
  /\ bidx <= Len(BranchOrder)
  /\ ~HasTracking(impl, track[BranchOrder[bidx]])
  /\ bidx' = bidx + 1
  /\ UNCHANGED <<impl, parents, head, track, wt, rpc, bases, counts, diffs, raised, dirtyRes>>
  /\ UNCHANGED <<metaVars, lineVars>>

\* One iteration: the tracking branch names a reference that does not exist,
\* and git merge-base fails on it (status 128, which merge_base re-raises).
DiffStale ==
  /\ rpc = "diff"
  /\ bidx <= Len(BranchOrder)
  /\ HasTracking(impl, track[BranchOrder[bidx]])
  /\ track[BranchOrder[bidx]].st = "stale"
  /\ raised' = "GitCommandError"
  /\ rpc' = "raised"
  /\ bidx' = bidx + 1
  /\ UNCHANGED <<impl, parents, head, track, wt, bases, counts, diffs, dirtyRes>>
  /\ UNCHANGED <<metaVars, lineVars>>

\* One iteration: the two tips have no common ancestor. merge_base(...)
\* is [] in gitmeta.py, whose [0] raises; it is None in meta.py, whose
\* self.get(None) raises.
DiffNoBase ==
  /\ rpc = "diff"
  /\ bidx <= Len(BranchOrder)
  /\ LET b == BranchOrder[bidx]
     IN /\ track[b].st = "live"
        /\ MergeBases(parents, head[b], track[b].tip) = {}
  /\ raised' = IF impl = "gitpython" THEN "IndexError" ELSE "TypeError"
  /\ rpc' = "raised"
  /\ bidx' = bidx + 1
  /\ UNCHANGED <<impl, parents, head, track, wt, bases, counts, diffs, dirtyRes>>
  /\ UNCHANGED <<metaVars, lineVars>>

\* One iteration: the counts of a branch with a live tracking branch, by
\* rev-list in gitmeta.py and by walking until the base in meta.py.
DiffCount ==
  /\ rpc = "diff"
  /\ bidx <= Len(BranchOrder)
  /\ LET b == BranchOrder[bidx]
     IN /\ track[b].st = "live"
        /\ \E base \in MergeBases(parents, head[b], track[b].tip) :
             \E c \in IF impl = "gitpython"
                        THEN {[desc |-> RevListCount(parents, base, head[b]),
                               asc |-> RevListCount(parents, base, track[b].tip)]}
                        ELSE {[desc |-> WalkCount(ol, base), asc |-> WalkCount(orr, base)] :
                                ol \in TopoOrders(parents, head[b]),
                                orr \in TopoOrders(parents, track[b].tip)} :
               /\ bases' = [bases EXCEPT ![b] = base]
               /\ counts' = [counts EXCEPT ![b] = c]
               /\ diffs' = [diffs EXCEPT ![b] = Encode(c.desc, c.asc)]
  /\ bidx' = bidx + 1
  /\ UNCHANGED <<impl, parents, head, track, wt, rpc, raised, dirtyRes>>
  /\ UNCHANGED <<metaVars, lineVars>>

\* remote_diff returns diffs.
DiffReturn ==
  /\ rpc = "diff"
  /\ bidx > Len(BranchOrder)
  /\ rpc' = "returned"
  /\ UNCHANGED <<impl, parents, head, track, wt, bidx, bases, counts, diffs, raised, dirtyRes>>
  /\ UNCHANGED <<metaVars, lineVars>>

(* --------------------- one repository: working tree -------------------- *)

Files == 1..NFiles

\* A file of the working tree: tracked and unchanged; tracked and changed in
\* the working tree; tracked and changed in the index; untracked; untracked
\* and matched by the ignore rules.
FileStates == {"clean", "wt_modified", "index_modified", "untracked", "ignored"}

\* git.Repo.is_dirty() with its defaults (index, working tree, no untracked
\* files): a tracked file differs from the index or the index from HEAD.
GitIsDirty(w) == \E f \in Files : w[f] \in {"wt_modified", "index_modified"}

\* git.Repo.untracked_files: the files git status lists as untracked, which
\* leaves out the ignored ones.
untracked_files(w) == {f \in Files : w[f] = "untracked"}

\* is_dirty without the untracked files.
is_dirty_TrackedOnly(w) == GitIsDirty(w)

\* gitmeta.py Repo.is_dirty.
is_dirty(w) == GitIsDirty(w) \/ Cardinality(untracked_files(w)) # 0

\* pygit2.Repository.status(): every file that is not clean, the ignored
\* ones too.
Pygit2Status(w) == {f \in Files : w[f] # "clean"}

\* meta.py Repo.status: pygit2's status without the ignored files.
status(w) == {f \in Pygit2Status(w) : w[f] # "ignored"}

\* Whether the repository is dirty, as statusline and iter read it.
DirtyOf(im, w) == IF im = "gitpython" THEN is_dirty(w) ELSE status(w) # {}

\* The repository's dirtiness is read.
IsDirty ==
  /\ rpc = "idle"
  /\ dirtyRes' = DirtyOf(impl, wt)
  /\ rpc' = "dirty"
  /\ UNCHANGED <<impl, parents, head, track, wt, bidx, bases, counts, diffs, raised>>
  /\ UNCHANGED <<metaVars, lineVars>>

\* An untracked file is added to .gitignore, before the next scan.
AddToGitignore ==
  /\ rpc = "dirty"
  /\ \E f \in Files :
       /\ wt[f] = "untracked"
       /\ wt' = [wt EXCEPT ![f] = "ignored"]
  /\ rpc' = "idle"
  /\ UNCHANGED <<impl, parents, head, track, bidx, bases, counts, diffs, raised, dirtyRes>>
  /\ UNCHANGED <<metaVars, lineVars>>

(* ---------------------- one repository: statusline --------------------- *)

\* Lengths of the working_dir paths drawn.
MaxPathLen == 10

\* Largest line_width drawn.
MaxLineWidth == 34

\* The line widths scan may pass, from a terminal narrower than Margin columns up.
LineWidths == (MaxLineWidth - 6)..MaxLineWidth

\* statusline's default line_width; meta.py's fixed width.
DefaultWidth == 80

\* gitmeta.py: max_path_len = line_width - 30.
Margin == 30

\* meta.py: max_path_len = 50.
FixedMaxPathLen == 50

\* A path of n characters: "/" then digits that tell the positions apart.
PathOfLen(n) == [i \in 1..n |-> IF i = 1 THEN "/" ELSE Digit(i % 10)]

\* The width of the line to build: the argument in gitmeta.py, 80 in meta.py.
WidthOf(im, lw) == IF im = "gitpython" THEN lw ELSE DefaultWidth

max_path_len(im, lw) == IF im = "gitpython" THEN lw - Margin ELSE FixedMaxPathLen

\* The longest path shown whole: max_path_len + 3 in gitmeta.py, max_path_len in meta.py.
WholeLimit(im, lw) ==
  IF im = "gitpython" THEN max_path_len(im, lw) + 3 ELSE max_path_len(im, lw)

\* Python's s[-m:]: the last m characters for m > 0 (all of s when it has
\* fewer), all of s for m = 0, s without its first -m characters for m < 0.
SliceLast(s, m) ==
  LET start == IF m > 0 THEN (IF Len(s) - m > 0 THEN Len(s) - m ELSE 0)
               ELSE (IF -m < Len(s) THEN -m ELSE Len(s))
  IN SubSeq(s, start + 1, Len(s))

Ellipsis == <<".", ".", ".">>

\* form["path"] of a repository that is not bare.
ShownPath(im, wd, lw) ==
  IF Len(wd) <= WholeLimit(im, lw) THEN wd
  ELSE Ellipsis \o SliceLast(wd, max_path_len(im, lw))

\* pygit2's Repository.path: the git directory, with a trailing slash.
RepoPath(wd) == wd \o <<"/">>

TagClose == <<"<", "/", "c", "o", "l", "o", "r", ">">>
TagGreen == <<"<", "c", "o", "l", "o", "r", "=", "g", "r", "e", "e", "n", ">">>
TagRed == <<"<", "c", "o", "l", "o", "r", "=", "r", "e", "d", ">">>
TagYellow == <<"<", "c", "o", "l", "o", "r", "=", "y", "e", "l", "l", "o", "w", ">">>

StatusBare == <<"[">> \o TagYellow \o <<"B", "A", "R", "E">> \o TagClose \o <<"]">>
StatusOK == <<"[", " ">> \o TagGreen \o <<"O", "K">> \o TagClose \o <<" ", "]">>
StatusKO == <<"[", " ">> \o TagRed \o <<"K", "O">> \o TagClose \o <<" ", "]">>
StashNote == TagYellow \o <<"s", "t", "a", "s", "h">> \o TagClose

\* branch.name as characters.
BranchName(b) ==
  IF b = "dev" THEN <<"d", "e", "v">> ELSE <<"m", "a", "s", "t", "e", "r">>

\* ["%s:%s" % tuple(x) for x in remote_diff.items()]: one entry per key of
\* the dict, in the order remote_diff inserted them.
RECURSIVE DiffNotes(_, _)
DiffNotes(d, order) ==
  IF order = <<>> THEN <<>>
  ELSE (IF d[Head(order)].has
          THEN <<BranchName(Head(order)) \o <<":">> \o d[Head(order)].val>>
          ELSE <<>>)
         \o DiffNotes(d, Tail(order))

\* ",".join(list)
RECURSIVE JoinComma(_)
JoinComma(list) ==
  IF list = <<>> THEN <<>>
  ELSE IF Len(list) = 1 THEN list[1]
  ELSE list[1] \o <<",">> \o JoinComma(Tail(list))

\* form["more"] of a repository that is not bare.
More(d, st) ==
  LET notes == DiffNotes(d, BranchOrder) \o (IF st THEN <<StashNote>> ELSE <<>>)
  IN IF Len(notes) # 0 THEN <<"(">> \o JoinComma(notes) \o <<")">> ELSE <<>>

\* " " * n: empty for n <= 0.
Spaces(n) == [i \in 1..(IF n > 0 THEN n ELSE 0) |-> " "]

\* " {path} {filler}{more} {status}".format(**form)
Template(form) ==
  <<" ">> \o form.path \o <<" ">> \o form.filler \o form.more \o <<" ">> \o form.status

\* Position of the first ">" of s at or after i that no line break
\* precedes, 0 when there is none.
TagEnd(s, i) ==
  LET c == {e \in i..Len(s) : s[e] \in {">", "\n"}}
  IN IF c = {} THEN 0
     ELSE LET m == CHOOSE x \in c : \A y \in c : x <= y
          IN IF s[m] = ">" THEN m ELSE 0

\* TagStr.empty: re.sub("(<.*?>)", "", self), match after match.
RECURSIVE empty(_)
empty(s) ==
  LET opens == {j \in 1..Len(s) : s[j] = "<" /\ TagEnd(s, j + 1) # 0}
  IN IF opens = {} THEN s
     ELSE LET j == CHOOSE x \in opens : \A y \in opens : x <= y
          IN SubSeq(s, 1, j - 1) \o empty(SubSeq(s, TagEnd(s, j + 1) + 1, Len(s)))

\* s begins with p.
StartsWith(s, p) == Len(s) >= Len(p) /\ SubSeq(s, 1, Len(p)) = p

\* Position of the first occurrence of p in s at or after i, 0 when there is none.
Find(s, p, i) ==
  LET c == {j \in i..(Len(s) - Len(p) + 1) : SubSeq(s, j, j + Len(p) - 1) = p}
  IN IF c = {} THEN 0 ELSE CHOOSE x \in c : \A y \in c : x <= y

\* The escape sequences TagStr._shell gives the colours used, each one
\* element of the line: they take no column of the terminal.
EscGreen == "ESC[92m"
EscRed == "ESC[91m"
EscYellow == "ESC[93m"
EscEnd == "ESC[39m"
Escapes == {EscGreen, EscRed, EscYellow, EscEnd}

\* TagStr.shell for one colour: re.sub of "(<color=x>)(.*?)(</color>)" by
\* the colour's code, the text, and the code _shell["color"]["end"].
RECURSIVE ShellColor(_, _, _)
ShellColor(s, tag, esc) ==
  LET i == Find(s, tag, 1)
      c == IF i = 0 THEN 0 ELSE Find(s, TagClose, i + Len(tag))
  IN IF c = 0 THEN s
     ELSE SubSeq(s, 1, i - 1) \o <<esc>> \o SubSeq(s, i + Len(tag), c - 1) \o <<EscEnd>>
            \o ShellColor(SubSeq(s, c + Len(TagClose), Len(s)), tag, esc)

\* TagStr.shell: the colours in the order of _shell["color"].
shell(s) ==
  ShellColor(ShellColor(ShellColor(s, TagRed, EscRed), TagGreen, EscGreen),
             TagYellow, EscYellow)

\* What a terminal shows of a line: its characters without the escape sequences.
Visible(s) == SelectSeq(s, LAMBDA c : c \notin Escapes)

\* statusline of a repository the path of which is `path`: the form built
\* for it, the filler computed from the stripped line, the line returned.
statusline(im, path, more, st, lw) ==
  LET form0 == [path |-> path, filler |-> <<>>, more |-> more, status |-> st]
      form1 == [form0 EXCEPT !.filler = Spaces(WidthOf(im, lw) - Len(empty(Template(form0))))]
  IN shell(Template(form1))

\* statusline is called on the repository.
Statusline ==
  /\ rpc = "idle"
  /\ IF bare /\ impl = "gitpython"
       THEN /\ raised' = "AttributeError"
            /\ rpc' = "raised"
            /\ line' = <<>>
       ELSE /\ line' = IF bare
                         THEN statusline(impl, RepoPath(working_dir), <<>>, StatusBare,
                                         line_width)
                         ELSE statusline(impl, ShownPath(impl, working_dir, line_width),
                                         More(diffs, stashed),
                                         IF ~DirtyOf(impl, wt) THEN StatusOK ELSE StatusKO,
                                         line_width)
            /\ rpc' = "line"
            /\ raised' = "none"
  /\ UNCHANGED <<impl, parents, head, track, wt, bidx, bases, counts, diffs, dirtyRes>>
  /\ UNCHANGED <<bare, working_dir, stashed, line_width>>
  /\ UNCHANGED metaVars

\* The repository changes before it is scanned again: a stash is made or dropped.
StashChange ==
  /\ rpc \in {"line", "raised"}
  /\ stashed' = ~stashed
  /\ rpc' = "idle"
  /\ UNCHANGED <<impl, parents, head, track, wt, bidx, bases, counts, diffs, raised, dirtyRes>>
  /\ UNCHANGED <<bare, working_dir, line_width, line>>
  /\ UNCHANGED metaVars

(* --------------------------- specifications ---------------------------- *)

\* No status line is being built.
InitLine ==
  /\ bare = FALSE
  /\ working_dir = <<>>
  /\ stashed = FALSE
  /\ line_width = 80
  /\ line = <<>>

\* No repository is being inspected.
InitRepo ==
  /\ parents = [c \in Commits |-> {}]
  /\ head = [b \in Branches |-> 1]
  /\ track = [b \in Branches |-> [st |-> "none", tip |-> 0]]
  /\ wt = [f \in Files |-> "clean"]
  /\ rpc = "idle"
  /\ bidx = 1
  /\ bases = [b \in Branches |-> 0]
  /\ counts = [b \in Branches |-> [desc |-> 0, asc |-> 0]]
  /\ diffs = [b \in Branches |-> NoEntry]
  /\ raised = "none"
  /\ dirtyRes = FALSE
  /\ InitLine

InitProcess ==
  /\ repolist = <<>>
  /\ found = <<>>
  /\ visited = {}
  /\ checked = {}
  /\ idx = 1
  /\ clean = FALSE
  /\ filter = "all"
  /\ log = <<>>
  /\ yielded = <<>>
  /\ launches = <<>>

\* The registry's life: a first run on a disk with no registry file, then
\* runs of main, repositories being deleted in between.
Init ==
  /\ listing \in Listings
  /\ kind \in [Dirs -> {"plain", "repo"}]
  /\ ignorelist = <<>>
  /\ fileExists = FALSE
  /\ file = <<>>
  /\ pc = "off"
  /\ todo = <<>>
  /\ InitProcess
  /\ impl = "gitpython"
  /\ InitRepo

Next ==
  \/ Startup
  \/ DiscoverStart
  \/ WalkStep
  \/ DiscoverFinish
  \/ ScanStart
  \/ ScanInvalid
  \/ ScanValid
  \/ ScanEnd
  \/ Exit
  \/ RemoveRepo

Spec == Init /\ [][Next]_vars

\* One discovery, on any tree and any ignore file.
InitDiscover ==
  /\ listing \in Listings
  /\ kind \in [Dirs -> Kinds]
  /\ ignorelist \in IgnoreSamples
  /\ fileExists = FALSE
  /\ file = <<>>
  /\ pc = "discover"
  /\ InitProcess
  /\ todo = <<ScanRoot>>
  /\ impl = "gitpython"
  /\ InitRepo

NextDiscover ==
  \/ WalkStep
  \/ DiscoverFinish

SpecDiscover == InitDiscover /\ [][NextDiscover]_vars

\* No registry is in play.
InitMeta ==
  /\ kind = [d \in Dirs |-> "plain"]
  /\ listing = [d \in Dirs |-> <<>>]
  /\ ignorelist = <<>>
  /\ fileExists = FALSE
  /\ file = <<>>
  /\ pc = "off"
  /\ todo = <<>>
  /\ InitProcess

\* remote_diff on any history, any two branches and their tracking branches.
InitDiff ==
  /\ InitMeta
  /\ impl \in {"gitpython", "pygit2"}
  /\ parents \in Graphs
  /\ head \in [Branches -> Commits]
  /\ track \in [Branches -> TrackStates]
  /\ wt = [f \in Files |-> "clean"]
  /\ rpc = "idle"
  /\ bidx = 1
  /\ bases = [b \in Branches |-> 0]
  /\ counts = [b \in Branches |-> [desc |-> 0, asc |-> 0]]
  /\ diffs = [b \in Branches |-> NoEntry]
  /\ raised = "none"
  /\ dirtyRes = FALSE
  /\ InitLine

NextDiff ==
  \/ RemoteDiffStart
  \/ DiffSkip
  \/ DiffStale
  \/ DiffNoBase
  \/ DiffCount
  \/ DiffReturn

SpecDiff == InitDiff /\ [][NextDiff]_vars

\* is_dirty on any working tree.
InitDirty ==
  /\ InitMeta
  /\ impl \in {"gitpython", "pygit2"}
  /\ parents = [c \in Commits |-> {}]
  /\ head = [b \in Branches |-> 1]
  /\ track = [b \in Branches |-> [st |-> "none", tip |-> 0]]
  /\ wt \in [Files -> FileStates]
  /\ rpc = "idle"
  /\ bidx = 1
  /\ bases = [b \in Branches |-> 0]
  /\ counts = [b \in Branches |-> [desc |-> 0, asc |-> 0]]
  /\ diffs = [b \in Branches |-> NoEntry]
  /\ raised = "none"
  /\ dirtyRes = FALSE
  /\ InitLine

NextDirty ==
  \/ IsDirty
  \/ AddToGitignore

SpecDirty == InitDirty /\ [][NextDirty]_vars

\* The lengths of the paths drawn: around the limit of each implementation.
PathLens(im) ==
  IF im = "gitpython" THEN 1..MaxPathLen
  ELSE {FixedMaxPathLen - (MaxPathLen \div 2) + k : k \in 1..MaxPathLen}

\* The dicts remote_diff returns that are drawn.
DiffSamples == [Branches -> {NoEntry, Encode(2, 1), Encode(0, 1)}]

\* The working trees drawn: clean, and with one file modified.
TreeSamples ==
  {[f \in Files |-> "clean"], [f \in Files |-> IF f = 1 THEN "wt_modified" ELSE "clean"]}

\* statusline on any repository whose remote_diff returns, at any width.
InitStatusline ==
  /\ InitMeta
  /\ impl \in {"gitpython", "pygit2"}
  /\ parents = [c \in Commits |-> {}]
  /\ head = [b \in Branches |-> 1]
  /\ track = [b \in Branches |-> [st |-> "none", tip |-> 0]]
  /\ wt \in TreeSamples
  /\ rpc = "idle"
  /\ bidx = 1
  /\ bases = [b \in Branches |-> 0]
  /\ counts = [b \in Branches |-> [desc |-> 0, asc |-> 0]]
  /\ diffs \in DiffSamples
  /\ raised = "none"
  /\ dirtyRes = FALSE
  /\ bare \in BOOLEAN
  /\ working_dir \in {PathOfLen(n) : n \in PathLens(impl)}
  /\ stashed = FALSE
  /\ line_width \in (IF impl = "gitpython" THEN LineWidths ELSE {DefaultWidth})
  /\ line = <<>>

NextStatusline ==
  \/ Statusline
  \/ StashChange

SpecStatusline == InitStatusline /\ [][NextStatusline]_vars

\* The registries drawn for a scan: at most two paths of directories under
\* the scan root, no path twice.
RegistrySamples ==
  LET below == Dirs \ {ScanRoot}
  IN {<<>>} \cup {<<PathOf[a]>> : a \in below}
       \cup {<<PathOf[q[1]], PathOf[q[2]]>> : q \in {r \in below \X below : r[1] # r[2]}}

\* One run of main on a registry read from its file: the scan, then the
\* terminals when --terminal is given. Each path of the registry names a
\* repository or a directory that is none.
InitScan ==
  /\ repolist \in RegistrySamples
  /\ kind \in {k \in [Dirs -> {"plain", "repo"}] :
                 \A d \in Dirs : PathOf[d] \notin Range(repolist) => k[d] = "plain"}
  /\ listing = CHOOSE l \in Listings : TRUE
  /\ ignorelist = <<>>
  /\ fileExists = TRUE
  /\ file = WriteRepolist(repolist)
  /\ pc = "main"
  /\ todo = <<>>
  /\ found = <<>>
  /\ visited = {}
  /\ checked = {}
  /\ idx = 1
  /\ clean = FALSE
  /\ filter = "all"
  /\ log = <<>>
  /\ yielded = <<>>
  /\ launches = <<>>
  /\ impl = "gitpython"
  /\ InitRepo

NextScan ==
  \/ ScanStart
  \/ ScanInvalid
  \/ ScanValid
  \/ ScanRaise
  \/ ScanEnd
  \/ TerminalStart
  \/ TerminalInvalid
  \/ TerminalValid
  \/ TerminalSpawnFails
  \/ TerminalRaise
  \/ TerminalEnd

SpecScan == InitScan /\ [][NextScan]_vars

\* The same run, which goes on as long as it has a step to take: each
\* iteration of the loops ends (the graph walks are bounded by the history).
SpecScanLive == SpecScan /\ WF_vars(ScanInvalid \/ ScanValid \/ ScanRaise \/ ScanEnd)

\* A first start or a later one: the registry file is absent, or holds a
\* registry; no ignore file.
InitStartup ==
  /\ listing \in Listings
  /\ \/ /\ fileExists = FALSE
        /\ file = <<>>
        /\ kind \in [Dirs -> {"plain", "repo", "broken"}]
     \/ /\ fileExists = TRUE
        /\ file \in {WriteRepolist(l) : l \in RegistrySamples}
        /\ kind = [d \in Dirs |-> "repo"]
  /\ ignorelist = <<>>
  /\ pc = "off"
  /\ todo = <<>>
  /\ InitProcess
  /\ impl = "gitpython"
  /\ InitRepo

NextStartup ==
  \/ Startup
  \/ WalkStep
  \/ DiscoverFinish

SpecStartup == InitStartup /\ [][NextStartup]_vars

\* The path of a repository in a directory whose name holds a line break.
LineBreakPath == <<"/", "h", "/", "a", "\n", "b">>

\* The paths a discovery may record.
SamplePaths == {PathOf[d] : d \in Dirs} \cup {LineBreakPath}

\* The lists drawn to be saved: at most three paths, no path twice, any order.
SavedSamples == UNION {Perms(S) : S \in {T \in SUBSET SamplePaths : Cardinality(T) <= 3}}

\* A list of paths is saved, loaded, and saved again.
InitSave ==
  /\ kind = [d \in Dirs |-> "plain"]
  /\ listing = [d \in Dirs |-> <<>>]
  /\ ignorelist = <<>>
  /\ fileExists = FALSE
  /\ file = <<>>
  /\ pc = "save"
  /\ todo = <<>>
  /\ repolist = <<>>
  /\ found \in SavedSamples
  /\ visited = {}
  /\ checked = {}
  /\ idx = 1
  /\ clean = FALSE
  /\ filter = "all"
  /\ log = <<>>
  /\ yielded = <<>>
  /\ launches = <<>>
  /\ impl = "gitpython"
  /\ InitRepo

NextSave ==
  \/ SaveRegistry
  \/ LoadRegistry
  \/ SaveAgain

SpecSave == InitSave /\ [][NextSave]_vars

(* ------------------------- registry: C1, C2, C3 ------------------------ *)

\* Strictly ascending: sorted, and no path twice.
StrictlyAscending(list) ==
  \A i \in 1..Len(list) - 1 : StrLess(list[i], list[i + 1])

\* Positions of self.repolist whose path does not open.
InvalidPositions == {i \in 1..Len(repolist) : ~RepoOpens(repolist[i])}

\* The paths of the entries of a log that satisfy a condition, in order.
RECURSIVE PassedPaths(_, _)
PassedPaths(l, flt) ==
  IF l = <<>> THEN <<>>
  ELSE (IF Head(l).ok /\ Passes(flt, Head(l).f) THEN <<Head(l).p>> ELSE <<>>)
         \o PassedPaths(Tail(l), flt)

\* C1: after a complete scan with clean set, the persisted registry holds
\* exactly the paths that opened (every invalid path removed, no valid one),
\* one diagnostic was emitted per invalid path, and exactly one record was
\* yielded per valid path that satisfies the filter.
C1_CleanScanPrunesEveryInvalidPath ==
  (pc = "scanned" /\ clean) =>
    /\ fileExists
    /\ Range(ReadList(file)) = {p \in Range(repolist) : RepoOpens(p)}
    /\ Len(SelectSeq(log, LAMBDA e : ~e.ok)) = Cardinality(InvalidPositions)
    /\ Len(log) = Len(repolist)
    /\ yielded = PassedPaths(log, filter)

\* C2: after every registry mutation the in-memory registry and the
\* persisted file hold the same sequence of paths: whenever no discovery is
\* under way, re-reading the file yields self.repolist.
C2_WriteThrough ==
  (fileExists /\ pc \in {"main", "ready", "scan", "scanned"}) =>
    ReadList(file) = repolist

\* C3: in every reachable state the registry has no duplicate path and is
\* in ascending order, in memory and in the persisted file.
C3_SortedNoDuplicate ==
  /\ StrictlyAscending(repolist)
  /\ fileExists => StrictlyAscending(ReadList(file))

(* ------------------------- discovery: C4, C5, C6 ----------------------- *)

\* The directory's path equals a literal entry of the ignore list or matches
\* one of its glob entries.
Ignored(d) ==
  \/ PathOf[d] \in Range(ignorelist)
  \/ \E i \in 1..Len(ignorelist) :
       has_magic(ignorelist[i]) /\ fnmatch(PathOf[d], ignorelist[i])

\* ".git" in dirs or "config" in files, on the directory as it is on disk.
LooksLikeRepo(d) == HasDotGit(kind[d]) \/ HasConfig(kind[d])

\* The directories whose path discover's list holds.
RecordedDirs == {d \in Dirs : \E i \in 1..Len(found) : found[i] = PathOf[d]}

Recorded(d) == d \in RecordedDirs

\* C4: discovery neither descends into an ignored directory (literal or
\* glob) nor attempts the repository check on it; no ignored directory and
\* no descendant of one is recorded.
C4_IgnoredNeverCheckedNorRecorded ==
  \A d \in Dirs :
    Ignored(d) =>
      /\ d \notin checked
      /\ ~Recorded(d)
      /\ \A e \in Dirs : IsBelow(e, d) => (e \notin visited /\ ~Recorded(e))

\* C5: discovery never descends into a directory it recorded as a repository
\* root: no strict descendant of a recorded root is reported by the walk or
\* recorded, and no path is recorded twice (in the walk's list, and in the
\* registry it leaves in the file and in memory).
C5_NoDescentBelowRecordedRoot ==
  /\ LET rec == RecordedDirs
     IN \A a \in rec : \A b \in Dirs :
          IsBelow(b, a) => (b \notin visited /\ b \notin rec)
  /\ \A i, j \in 1..Len(found) : i # j => found[i] # found[j]
  /\ pc = "ready" =>
       /\ ReadList(file) = found
       /\ Range(repolist) = Range(found)
       /\ Len(repolist) = Len(found)

\* C5's case: a discovery has ended with a root recorded that has a valid
\* repository beneath it.
C5_Witness ==
  /\ pc = "ready"
  /\ \E a, b \in Dirs : Recorded(a) /\ IsBelow(b, a) /\ Opens(kind[b])

\* C6 as stated: a directory that looks like a repository root and fails to
\* open is not recorded, the walk does not descend into it, and no
\* repository beneath it is recorded.
C6_NoDescentBelowFailedOpen ==
  \A d \in Dirs :
    (LooksLikeRepo(d) /\ ~Opens(kind[d])) =>
      /\ ~Recorded(d)
      /\ \A e \in Dirs : IsBelow(e, d) => (e \notin visited /\ ~Recorded(e))

\* C6 amended: a directory that looks like a repository root and fails to
\* open is not recorded, and the walk continues below it: when it is not
\* ignored, each of its subdirectories is reported by the walk, and one that
\* is a valid repository and not ignored is recorded.
C6_FailedOpenSkippedWalkContinues ==
  LET rec == RecordedDirs
  IN /\ \A d \in rec : Opens(kind[d])
     /\ \A d \in visited :
          (LooksLikeRepo(d) /\ ~Opens(kind[d]) /\ ~Ignored(d)) =>
            \A c \in Children(d) :
              /\ c \in visited \/ c \in Range(todo)
              /\ (pc = "ready" /\ Opens(kind[c]) /\ ~Ignored(c)) => c \in rec

\* C6's case: a discovery has ended having met a .git directory that did not
\* open, with a valid repository recorded right beneath it.
C6_Witness ==
  /\ pc = "ready"
  /\ \E d \in visited :
       /\ kind[d] = "broken"
       /\ d \in checked
       /\ ~Ignored(d)
       /\ \E c \in Children(d) : Opens(kind[c]) /\ Recorded(c)

(* ----------------------- remote_diff: C7, C8, C9 ----------------------- *)

\* Branches whose iteration of remote_diff's loop has run.
Processed == {BranchOrder[i] : i \in 1..(bidx - 1)}

\* Branches whose counts remote_diff has taken.
Counted == {b \in Processed : bases[b] # 0}

\* C7: for every commit graph and every branch with a tracking branch,
\* countLocal is the number of commits reachable from the local tip and not
\* from the merge base, countRemote the same from the remote tip, whatever
\* order the walk from the tip reports the commits in.
C7_CountsAreSetSizes ==
  \A b \in Counted :
    /\ counts[b].desc =
         Cardinality({c \in Commits : c \in Reach(parents, head[b])
                                        /\ c \notin Reach(parents, bases[b])})
    /\ counts[b].asc =
         Cardinality({c \in Commits : c \in Reach(parents, track[b].tip)
                                        /\ c \notin Reach(parents, bases[b])})

\* C8 as stated: no entry when both counts are zero, "+<local>-<remote>"
\* when both are non-zero, "+<local>" when only the local side is ahead,
\* "-<remote>" when only the remote side is.
C8_SignedEncoding ==
  \A b \in Counted :
    LET l == counts[b].desc
        r == counts[b].asc
    IN /\ (l = 0 /\ r = 0) => ~diffs[b].has
       /\ (l # 0 /\ r # 0) =>
            diffs[b] = [has |-> TRUE, val |-> <<"+">> \o PyStr(l) \o <<"-">> \o PyStr(r)]
       /\ (l # 0 /\ r = 0) => diffs[b] = [has |-> TRUE, val |-> <<"+">> \o PyStr(l)]
       /\ (l = 0 /\ r # 0) => diffs[b] = [has |-> TRUE, val |-> <<"-">> \o PyStr(r)]

\* C8 amended: no entry when both counts are zero, "<local>-<remote>" when
\* both are non-zero, "<local>" when only the local side is ahead,
\* "-<remote>" when only the remote side is; a branch remote_diff did not
\* count has no entry.
C8_UnsignedEncoding ==
  /\ \A b \in Counted :
       LET l == counts[b].desc
           r == counts[b].asc
       IN /\ (l = 0 /\ r = 0) => ~diffs[b].has
          /\ (l # 0 /\ r # 0) =>
               diffs[b] = [has |-> TRUE, val |-> PyStr(l) \o <<"-">> \o PyStr(r)]
          /\ (l # 0 /\ r = 0) => diffs[b] = [has |-> TRUE, val |-> PyStr(l)]
          /\ (l = 0 /\ r # 0) => diffs[b] = [has |-> TRUE, val |-> <<"-">> \o PyStr(r)]
  /\ \A b \in Branches \ Counted : ~diffs[b].has

\* C8's case: remote_diff has returned, with one commit on each side of a
\* branch reported as "1-1".
C8_Witness ==
  /\ rpc = "returned"
  /\ \E b \in Counted :
       /\ counts[b] = [desc |-> 1, asc |-> 1]
       /\ diffs[b] = [has |-> TRUE, val |-> <<"1", "-", "1">>]

\* C9: for a branch whose recorded tracking branch no longer resolves to a
\* live remote reference, remote_diff does not raise and gives the branch no
\* entry.
C9_StaleTrackingDoesNotRaise ==
  \A b \in Processed :
    track[b].st = "stale" => (raised # "GitCommandError" /\ ~diffs[b].has)

(* --------------------------- is_dirty: C10 ----------------------------- *)

\* C10: the repository is reported dirty exactly when a tracked file
\* differs from the index or HEAD or an untracked file that is not ignored
\* exists; ignored files never make it dirty.
C10_DirtyIffChangedOrUntracked ==
  rpc = "dirty" =>
    (dirtyRes <=>
       \/ \E f \in Files : wt[f] = "wt_modified" \/ wt[f] = "index_modified"
       \/ \E f \in Files : wt[f] = "untracked")

\* C10's case: a repository whose only files that are not clean are ignored
\* is reported clean.
C10_Witness ==
  /\ rpc = "dirty"
  /\ ~dirtyRes
  /\ \E f \in Files : wt[f] = "ignored"
  /\ \A f \in Files : wt[f] \in {"clean", "ignored"}

(* ----------------------- statusline: C11, C17, C19 --------------------- *)

\* s ends with p.
EndsWith(s, p) == Len(s) >= Len(p) /\ SubSeq(s, Len(s) - Len(p) + 1, Len(s)) = p

\* The last k characters of s (none for k <= 0, all of s when it has fewer).
LastChars(s, k) ==
  IF k <= 0 THEN <<>> ELSE IF k >= Len(s) THEN s ELSE SubSeq(s, Len(s) - k + 1, Len(s))

\* A tracked file of the working tree is changed, or an untracked file that
\* is not ignored exists.
TreeIsDirty == \E f \in Files : wt[f] \in {"wt_modified", "index_modified", "untracked"}

\* The annotations a line ends with, as the terminal receives them: one
\* branch:divergence per branch remote_diff has an entry for, then stash.
ExpectedCluster ==
  LET dev == IF diffs["dev"].has
               THEN << <<"d", "e", "v", ":">> \o diffs["dev"].val >> ELSE <<>>
      master == IF diffs["master"].has
                  THEN << <<"m", "a", "s", "t", "e", "r", ":">> \o diffs["master"].val >>
                  ELSE <<>>
      stash == IF stashed
                 THEN << <<EscYellow, "s", "t", "a", "s", "h", EscEnd>> >> ELSE <<>>
      notes == dev \o master \o stash
  IN IF notes = <<>> THEN <<>> ELSE <<"(">> \o JoinComma(notes) \o <<")">>

\* C11: for every repository and every line width, the visible length of
\* the line statusline returns (markup taken out) equals the line width,
\* whatever the length of the path and the number of annotations.
C11_VisibleWidthIsLineWidth ==
  rpc = "line" => Len(Visible(line)) = WidthOf(impl, line_width)

\* C17: the bracketed token a status line ends with is BARE for a bare
\* repository, otherwise OK exactly when the repository is not dirty and KO
\* exactly when it is; divergence and stash appear only in the parenthesized
\* cluster before it and never change it.
C17_TokenFromBareAndDirtyOnly ==
  rpc \in {"line", "raised"} =>
    /\ rpc = "line"
    /\ bare => EndsWith(line, <<" ", "[", EscYellow, "B", "A", "R", "E", EscEnd, "]">>)
    /\ (~bare /\ ~TreeIsDirty) =>
         EndsWith(line, ExpectedCluster \o <<" ", "[", " ", EscGreen, "O", "K", EscEnd, " ", "]">>)
    /\ (~bare /\ TreeIsDirty) =>
         EndsWith(line, ExpectedCluster \o <<" ", "[", " ", EscRed, "K", "O", EscEnd, " ", "]">>)

\* C19: the path is shown whole exactly when its length is at most
\* lineWidth - 30, and otherwise as "..." followed by its last
\* lineWidth - 30 characters.
C19_TruncationAtWidthMinus30 ==
  (rpc = "line" /\ ~bare) =>
    LET k == WidthOf(impl, line_width) - 30
        shown == IF Len(working_dir) <= k THEN working_dir
                 ELSE Ellipsis \o LastChars(working_dir, k)
    IN StartsWith(line, <<" ">> \o shown \o <<" ">>)

(* --------------------- scan and terminal: C12, C13, C14, C18 ----------- *)

\* The predicate the claim gives each filter, under the name main passes for it.
NamedPredicate(flt, f) ==
  CASE flt = "all" -> TRUE
    [] flt = "OK" -> ~f.dirty
    [] flt = "KO" -> f.dirty
    [] flt = "remote" -> f.rdiff
    [] flt = "no-remote" -> ~f.remote
    [] flt = "?" -> FALSE
    [] flt = "NOK" -> f.dirty \/ f.rdiff \/ f.stash
    [] OTHER -> TRUE

\* The paths of the entries of a log that opened and satisfy the named
\* predicate, in the order of the log.
RECURSIVE Selected(_, _)
Selected(l, flt) ==
  IF l = <<>> THEN <<>>
  ELSE (IF Head(l).ok /\ NamedPredicate(flt, Head(l).f) THEN <<Head(l).p>> ELSE <<>>)
         \o Selected(Tail(l), flt)

\* The paths attempted so far are the first paths of the registry, in its
\* order, each once, and each is logged as opened exactly when it opens.
AttemptedInOrder ==
  /\ Len(log) <= Len(repolist)
  /\ \A i \in 1..Len(log) :
       log[i].p = repolist[i] /\ (log[i].ok <=> RepoOpens(repolist[i]))

\* C12: for every registry and every filter, iterate yields, in registry
\* order, exactly the valid repositories that satisfy the named predicate
\* (all: every one; ok: not dirty; ko: dirty; remote: remote_diff not empty;
\* no-remote: no remote; unknown: none; not-ok: dirty, or remote_diff not
\* empty, or a stash), during the scan, at its end, and in terminal's loop.
C12_YieldsExactlyThePredicate ==
  pc \in {"scan", "scanned", "terminal", "done"} =>
    /\ AttemptedInOrder
    /\ yielded = Selected(log, filter)
    /\ pc \in {"scanned", "done"} => Len(log) = Len(repolist)

\* C12's case: a scan under the default filter has ended, having passed over
\* a repository with nothing to report and yielded one that only has a stash.
C12_Witness ==
  /\ pc = "scanned"
  /\ filter = "NOK"
  /\ Len(log) = 2
  /\ log[1].ok /\ log[1].f = NoFacts
  /\ log[2].ok /\ log[2].f.stash /\ ~log[2].f.dirty /\ ~log[2].f.rdiff
  /\ yielded = <<log[2].p>>

\* C13: every repository yielded under the OK filter is not dirty, has an
\* empty remote_diff and no stash, so that none is selected by both the OK
\* filter and the NOK filter.
C13_OkMeansNothingToReport ==
  (pc \in {"scan", "scanned"} /\ filter = "OK") =>
    \A i \in 1..Len(log) :
      (log[i].ok /\ log[i].p \in Range(yielded)) =>
        /\ ~log[i].f.dirty /\ ~log[i].f.rdiff /\ ~log[i].f.stash
        /\ ~NamedPredicate("NOK", log[i].f)

\* C14: a path that fails to open is logged with its diagnostic and the scan
\* goes on to the next path, with or without clean; the paths are attempted
\* once each in registry order; only the inspection of a repository that
\* opened can end the scan early; the scan gets past every invalid path and
\* comes to its end, and when it ends normally every path was attempted.
C14_InvalidPathNeverAbortsScan ==
  /\ [](pc \in {"scan", "scanned"} => (AttemptedInOrder /\ idx = Len(log) + 1))
  /\ [](pc = "scanned" => Len(log) = Len(repolist))
  /\ [][(pc = "scan" /\ idx <= Len(repolist) /\ ~RepoOpens(repolist[idx])) =>
          /\ pc' = "scan"
          /\ idx' = idx + 1
          /\ log' = Append(log, [p |-> repolist[idx], ok |-> FALSE, f |-> NoFacts])
          /\ repolist' = repolist]_vars
  /\ \A i \in 1..2 :
       (pc = "scan" /\ idx = i /\ i <= Len(repolist) /\ ~RepoOpens(repolist[i]))
         ~> (idx = i + 1 /\ Len(log) = i)
  /\ (pc = "scan") ~> (pc \in {"scanned", "crashed"})

\* C14's case: a scan has ended whose first path did not open and whose
\* second path was opened and inspected, with clean and without.
C14_Witness ==
  /\ pc = "scanned"
  /\ Len(log) = 2
  /\ ~log[1].ok
  /\ log[2].ok
  /\ yielded = <<log[2].p>>

\* C18: a failure to spawn the terminal of one matching repository does not
\* end the run: it is not propagated, and when terminal's loop ends a launch
\* was attempted for every matching repository.
C18_SpawnFailureDoesNotAbort ==
  (\E i \in 1..Len(launches) : ~launches[i].spawned) =>
    /\ pc # "crashed"
    /\ pc = "done" => [i \in 1..Len(launches) |-> launches[i].p] = Selected(log, filter)

(* -------------------------- remote_diff: C20 --------------------------- *)

\* C20: remote_diff does not raise on a branch whose tracking branch is
\* live, the case of two tips with no common ancestor included.
C20_RemoteDiffTotalOnLiveTracking ==
  \A i \in 1..Len(BranchOrder) :
    (i = bidx - 1 /\ rpc \in {"diff", "raised", "returned"}
       /\ track[BranchOrder[i]].st = "live") => raised = "none"

(* ----------------------- startup and file: C15, C16 -------------------- *)

\* The valid repositories a walk from the scan root comes to: those with no
\* valid repository above them.
TopmostRepos ==
  {d \in Dirs : Opens(kind[d]) /\ \A a \in Dirs : IsBelow(d, a) => ~Opens(kind[a])}

\* The start ran a discovery: the registry file was absent.
StartedWithoutFile == pc = "main" /\ visited # {}

C16_SaveLoadRoundTrip ==
  /\ pc \in {"loaded", "resaved"} => Range(repolist) = Range(found)
  /\ pc = "resaved" => file = WriteRepolist(found)

====
